---- MODULE Spec2Model ----
(***************************************************************************)
(* Model of regex.py: a Thompson-style NFA compiler (RegexFSM._build_nfa)   *)
(* and its subset simulation (RegexFSM.check_string).                       *)
(*                                                                         *)
(* Strings are sequences of one-character strings.  State objects live in  *)
(* the heap `states`, a sequence of records; a State is identified by its  *)
(* index in the heap (object identity).  A transitions dict is a function  *)
(* whose DOMAIN is the set of keys present; its values are lists of State  *)
(* identities.  Python's None is the value None below.                     *)
(***************************************************************************)
EXTENDS Integers, Sequences, FiniteSets, TLC

VARIABLES
    pattern,        \* the argument of RegexFSM(pattern)
    i,              \* _build_nfa: cursor (0-based, as in the source)
    base_start,     \* _build_nfa: start of the accumulated fragment, or NoState
    base_end,       \* _build_nfa: end of the accumulated fragment, or NoState
    states,         \* heap of State objects created so far
    start_state,    \* RegexFSM.start_state
    cpc,            \* position of the constructor: "build", "ready", "raised"
    exception,      \* the exception raised by the constructor, or NoException
    input_str,      \* per call: the argument of check_string
    idx,            \* per call: number of characters already consumed
    current_states, \* per call: the local current_states
    mpc,            \* per call: "idle", "loop", "done"
    result,         \* per call: the returned value (read when mpc is "done")
    ec_states,      \* epsilon_closure called on its own: the argument states
    ec_stack,       \* epsilon_closure called on its own: the local stack
    ec_closure,     \* epsilon_closure called on its own: the local closure
    ec_pc           \* epsilon_closure called on its own: "idle", "while", "returned"

vars == <<pattern, i, base_start, base_end, states, start_state, cpc,
          exception, input_str, idx, current_states, mpc, result,
          ec_states, ec_stack, ec_closure, ec_pc>>

buildVars == <<pattern, i, base_start, base_end, states, start_state, cpc,
               exception>>
matchVars == <<input_str, idx, current_states, mpc, result>>
closureVars == <<ec_states, ec_stack, ec_closure, ec_pc>>

----------------------------------------------------------------------------
(* Bounds *)

MaxPatLen == 3
MaxInLen == 3
MaxDemoLen == 5
MaxConcPatLen == 2
MaxConcInLen == 2
MaxGraphNodes == 2
MaxClosureNodes == 3
MaxEdges == 3
MaxEpsEdges == 2

\* the calls of check_string in flight: two, enough for one call to disturb
\* another
Threads == {1, 2}
MainThread == CHOOSE t \in Threads : \A u \in Threads : t <= u

(* Characters.  AlnumChars are the characters of the model's universe for   *)
(* which str.isalnum() is true.                                            *)
\* None as a dict key (epsilon) and as a State name
None == "None"
\* None where a State is expected: State identities start at 1
NoState == 0
AlnumChars == {"a", "b", "c", "4", "u", "h", "i", "m", "e", "o", "w"}
PatternChars == {"a", "b", ".", "*", "+", "#"}
InputChars == {"a", "b", "c", "."}
DemoChars == {"a", "4", "h", "i"}
ConcChars == {"a", "b"}

StringsUpTo(chars, n) == UNION {[1..k -> chars] : k \in 0..n}

DemoPattern == <<"a", "*", "4", ".", "+", "h", "i">>
DemoInputs == {<<"a", "a", "a", "a", "a", "a", "4", "u", "h", "i">>,
               <<"4", "u", "h", "i">>,
               <<"m", "e", "o", "w">>,
               <<"4", "h", "i">>}
ErrorPatterns == {<<"*", "a", "b">>, <<"a", "#", "b">>}

Range(f) == {f[k] : k \in DOMAIN f}

----------------------------------------------------------------------------
(* class State *)

EmptyDict == [k \in {} |-> <<>>]

\* State.__init__
NewState == [name |-> None, transitions |-> EmptyDict, is_final |-> FALSE]

\* State.add_transition with the bug of overwriting the list under the key
add_transition_overwrite(sts, src, symbol, state) ==
    LET tr == sts[src].transitions
        dom == DOMAIN tr \cup {symbol}
        ntr == [k \in dom |-> IF k = symbol THEN <<state>> ELSE tr[k]]
    IN  [sts EXCEPT ![src].transitions = ntr]

\* State.add_transition keeping the destinations as a set: a destination
\* already registered under the key is not appended again
add_transition_dedup(sts, src, symbol, state) ==
    LET tr == sts[src].transitions
        dom == DOMAIN tr \cup {symbol}
        ntr == IF symbol \in DOMAIN tr
               THEN IF state \in Range(tr[symbol]) THEN tr
                    ELSE [tr EXCEPT ![symbol] = Append(tr[symbol], state)]
               ELSE [k \in dom |-> IF k = symbol THEN <<state>> ELSE tr[k]]
    IN  [sts EXCEPT ![src].transitions = ntr]

\* State.add_transition: sts[src].add_transition(symbol, state)
add_transition(sts, src, symbol, state) ==
    LET tr == sts[src].transitions
        dom == DOMAIN tr \cup {symbol}
        ntr == IF symbol \in DOMAIN tr
               THEN [tr EXCEPT ![symbol] = Append(tr[symbol], state)]
               ELSE [k \in dom |-> IF k = symbol THEN <<state>> ELSE tr[k]]
    IN  [sts EXCEPT ![src].transitions = ntr]

\* class NFAFragment
NFAFragment(start, end) == [start |-> start, end |-> end]

\* build_fragment_for_symbol marking the end of every atom fragment final
build_fragment_final_end(sts, symbol) ==
    LET start == Len(sts) + 1
        end == Len(sts) + 2
        s1 == sts \o <<NewState, [NewState EXCEPT !.is_final = TRUE]>>
        s2 == add_transition(s1, start, symbol, end)
    IN  [states |-> s2, fragment |-> NFAFragment(start, end)]

\* build_fragment_for_symbol: returns the heap and the fragment
build_fragment_for_symbol(sts, symbol) ==
    LET start == Len(sts) + 1
        end == Len(sts) + 2
        s1 == sts \o <<NewState, NewState>>
        s2 == add_transition(s1, start, symbol, end)
    IN  [states |-> s2, fragment |-> NFAFragment(start, end)]

\* apply_star_to_fragment without the skip edge new_start -> new_end
apply_star_no_skip(sts, fragment) ==
    LET new_start == Len(sts) + 1
        new_end == Len(sts) + 2
        s1 == sts \o <<NewState, NewState>>
        s2 == add_transition(s1, new_start, None, fragment.start)
        s4 == add_transition(s2, fragment.end, None, fragment.start)
        s5 == add_transition(s4, fragment.end, None, new_end)
    IN  [states |-> s5, fragment |-> NFAFragment(new_start, new_end)]

\* apply_star_to_fragment without the exit edge fragment.end -> new_end
apply_star_no_exit(sts, fragment) ==
    LET new_start == Len(sts) + 1
        new_end == Len(sts) + 2
        s1 == sts \o <<NewState, NewState>>
        s2 == add_transition(s1, new_start, None, fragment.start)
        s3 == add_transition(s2, new_start, None, new_end)
        s4 == add_transition(s3, fragment.end, None, fragment.start)
    IN  [states |-> s4, fragment |-> NFAFragment(new_start, new_end)]

\* apply_star_to_fragment
apply_star_to_fragment(sts, fragment) ==
    LET new_start == Len(sts) + 1
        new_end == Len(sts) + 2
        s1 == sts \o <<NewState, NewState>>
        s2 == add_transition(s1, new_start, None, fragment.start)
        s3 == add_transition(s2, new_start, None, new_end)
        s4 == add_transition(s3, fragment.end, None, fragment.start)
        s5 == add_transition(s4, fragment.end, None, new_end)
    IN  [states |-> s5, fragment |-> NFAFragment(new_start, new_end)]

\* apply_plus_to_fragment with an added skip edge start -> new_end
apply_plus_with_skip(sts, fragment) ==
    LET new_end == Len(sts) + 1
        s1 == Append(sts, NewState)
        s2 == add_transition(s1, fragment.end, None, fragment.start)
        s3 == add_transition(s2, fragment.end, None, new_end)
        s4 == add_transition(s3, fragment.start, None, new_end)
    IN  [states |-> s4, fragment |-> NFAFragment(fragment.start, new_end)]

\* apply_plus_to_fragment without the loop edge end -> start
apply_plus_no_loop(sts, fragment) ==
    LET new_end == Len(sts) + 1
        s1 == Append(sts, NewState)
        s3 == add_transition(s1, fragment.end, None, new_end)
    IN  [states |-> s3, fragment |-> NFAFragment(fragment.start, new_end)]

\* apply_plus_to_fragment
apply_plus_to_fragment(sts, fragment) ==
    LET new_end == Len(sts) + 1
        s1 == Append(sts, NewState)
        s2 == add_transition(s1, fragment.end, None, fragment.start)
        s3 == add_transition(s2, fragment.end, None, new_end)
    IN  [states |-> s3, fragment |-> NFAFragment(fragment.start, new_end)]

----------------------------------------------------------------------------
(* RegexFSM._build_nfa *)

\* line 76 with '+' forgotten
IsOperatorStarOnly(char) == char = "*"

\* line 76: char == '*' or char == '+'
IsOperator(char) == char = "*" \/ char = "+"

\* line 78 accepting every character
IsAtomCharAny(char) == TRUE

\* line 78: char.isalnum() or char == '.'
IsAtomChar(char) == char \in AlnumChars \/ char = "."

\* lines 80-83: the operator consumed by the lookahead, or None
\* lines 80-83 with the membership test dropped: any character after the
\* atom that is not itself an atom is taken as its repetition mark
LookaheadAnyMark(p, j) ==
    IF j < Len(p) /\ ~IsAtomChar(p[j + 1]) THEN p[j + 1] ELSE None

Lookahead(p, j) ==
    IF j < Len(p) /\ p[j + 1] \in {"*", "+"} THEN p[j + 1] ELSE None

ValueError(text, char) == [type |-> "ValueError", text |-> text, char |-> char]
NoException == [type |-> "None", text |-> "", char |-> ""]
MalformedText == "invalid pattern: starts with"
UnsupportedText == "unsupported symbol in pattern"

\* lines 74-77: the cursor is at an operator
RaiseMalformed ==
    /\ cpc = "build"
    /\ i < Len(pattern)
    /\ IsOperator(pattern[i + 1])
    /\ exception' = ValueError(MalformedText, pattern[i + 1])
    /\ cpc' = "raised"
    /\ UNCHANGED <<pattern, i, base_start, base_end, states, start_state>>
    /\ UNCHANGED matchVars
    /\ UNCHANGED closureVars

\* lines 74-75, 95-96: the cursor is at an unsupported character
RaiseUnsupported ==
    /\ cpc = "build"
    /\ i < Len(pattern)
    /\ ~IsOperator(pattern[i + 1])
    /\ ~IsAtomChar(pattern[i + 1])
    /\ exception' = ValueError(UnsupportedText, pattern[i + 1])
    /\ cpc' = "raised"
    /\ UNCHANGED <<pattern, i, base_start, base_end, states, start_state>>
    /\ UNCHANGED matchVars
    /\ UNCHANGED closureVars

\* lines 74-94: one iteration of the loop on an atom
BuildAtom ==
    /\ cpc = "build"
    /\ i < Len(pattern)
    /\ ~IsOperator(pattern[i + 1])
    /\ IsAtomChar(pattern[i + 1])
    /\ LET char == pattern[i + 1]
           rep == Lookahead(pattern, i + 1)
           f0 == build_fragment_for_symbol(states, char)
           f1 == IF rep = "*" THEN apply_star_to_fragment(f0.states, f0.fragment)
                 ELSE IF rep = "+" THEN apply_plus_to_fragment(f0.states, f0.fragment)
                 ELSE f0
       IN  /\ i' = IF rep = None THEN i + 1 ELSE i + 2
           /\ IF base_start = NoState
              THEN /\ base_start' = f1.fragment.start
                   /\ states' = f1.states
              ELSE /\ states' = add_transition(f1.states, base_end, None,
                                               f1.fragment.start)
                   /\ UNCHANGED base_start
           /\ base_end' = f1.fragment.end
    /\ UNCHANGED <<pattern, start_state, cpc, exception>>
    /\ UNCHANGED matchVars
    /\ UNCHANGED closureVars

\* lines 98-102 with line 101 moved into an else branch: the state made
\* for the empty pattern is not marked final
FinishBuildEmptyNotFinal ==
    /\ cpc = "build"
    /\ i >= Len(pattern)
    /\ LET s1 == IF base_start = NoState THEN Append(states, NewState) ELSE states
           bs == IF base_start = NoState THEN Len(states) + 1 ELSE base_start
           be == IF base_start = NoState THEN Len(states) + 1 ELSE base_end
       IN  /\ states' = IF base_start = NoState THEN s1
                        ELSE [s1 EXCEPT ![be].is_final = TRUE]
           /\ base_start' = bs
           /\ base_end' = be
           /\ start_state' = bs
    /\ cpc' = "ready"
    /\ UNCHANGED <<pattern, i, exception>>
    /\ UNCHANGED matchVars
    /\ UNCHANGED closureVars

\* lines 98-102: after the loop
FinishBuild ==
    /\ cpc = "build"
    /\ i >= Len(pattern)
    /\ LET s1 == IF base_start = NoState THEN Append(states, NewState) ELSE states
           bs == IF base_start = NoState THEN Len(states) + 1 ELSE base_start
           be == IF base_start = NoState THEN Len(states) + 1 ELSE base_end
       IN  /\ states' = [s1 EXCEPT ![be].is_final = TRUE]
           /\ base_start' = bs
           /\ base_end' = be
           /\ start_state' = bs
    /\ cpc' = "ready"
    /\ UNCHANGED <<pattern, i, exception>>
    /\ UNCHANGED matchVars
    /\ UNCHANGED closureVars

----------------------------------------------------------------------------
(* RegexFSM.epsilon_closure *)

\* list(states): some enumeration of the set
SetToList(S) ==
    LET lst[T \in SUBSET S] ==
            IF T = {} THEN <<>>
            ELSE LET x == CHOOSE y \in T : TRUE IN <<x>> \o lst[T \ {x}]
    IN  lst[S]

\* lines 113-116 without the test "nxt not in closure"
RECURSIVE closure_for_no_visited(_, _, _, _)
closure_for_no_visited(lst, k, stack, closure) ==
    IF k > Len(lst) THEN [stack |-> stack, closure |-> closure]
    ELSE closure_for_no_visited(lst, k + 1, Append(stack, lst[k]),
                                closure \cup {lst[k]})

\* lines 113-116: the for loop over state.transitions[None], from index k
RECURSIVE closure_for(_, _, _, _)
closure_for(lst, k, stack, closure) ==
    IF k > Len(lst) THEN [stack |-> stack, closure |-> closure]
    ELSE IF lst[k] \notin closure
         THEN closure_for(lst, k + 1, Append(stack, lst[k]),
                          closure \cup {lst[k]})
         ELSE closure_for(lst, k + 1, stack, closure)

\* lines 111-116: one iteration of the while loop on the locals r
closure_body(sts, r) ==
    LET state == r.stack[Len(r.stack)]
        popped == SubSeq(r.stack, 1, Len(r.stack) - 1)
        tr == sts[state].transitions
    IN  IF None \in DOMAIN tr
        THEN closure_for(tr[None], 1, popped, r.closure)
        ELSE [stack |-> popped, closure |-> r.closure]

\* lines 110-117: the while loop
closure_while(sts, stack, closure) ==
    LET loop[r \in [stack : Seq(DOMAIN sts), closure : SUBSET DOMAIN sts]] ==
            IF r.stack = <<>> THEN r.closure ELSE loop[closure_body(sts, r)]
    IN  loop[[stack |-> stack, closure |-> closure]]

\* epsilon_closure with closure initialised to set() instead of set(states)
epsilon_closure_empty_init(sts, S) == closure_while(sts, SetToList(S), {})

\* epsilon_closure: lines 104-117
epsilon_closure(sts, S) == closure_while(sts, SetToList(S), S)

----------------------------------------------------------------------------
(* RegexFSM.check_string *)

\* lines 125-130 with the wildcard branch left out
next_states_no_wildcard(sts, cur, char) ==
    UNION {IF char \in DOMAIN sts[s].transitions
           THEN Range(sts[s].transitions[char]) ELSE {} : s \in cur}

\* lines 125-130 where a wildcard transition anywhere in current_states
\* suppresses the exact-character transitions
next_states_wildcard_first(sts, cur, char) ==
    IF \E s \in cur : "." \in DOMAIN sts[s].transitions
    THEN UNION {IF "." \in DOMAIN sts[s].transitions
                THEN Range(sts[s].transitions["."]) ELSE {} : s \in cur}
    ELSE UNION {IF char \in DOMAIN sts[s].transitions
                THEN Range(sts[s].transitions[char]) ELSE {} : s \in cur}

\* lines 125-130 restarting from start_state when current_states is empty
\* (search instead of match)
next_states_restart(sts, cur, char) ==
    LET from == IF cur = {} THEN epsilon_closure(sts, {start_state}) ELSE cur
    IN  UNION {(IF char \in DOMAIN sts[s].transitions
                THEN Range(sts[s].transitions[char]) ELSE {})
               \cup
               (IF "." \in DOMAIN sts[s].transitions
                THEN Range(sts[s].transitions["."]) ELSE {}) : s \in from}

\* lines 125-130: next_states for one input character
next_states(sts, cur, char) ==
    UNION {(IF char \in DOMAIN sts[s].transitions
            THEN Range(sts[s].transitions[char]) ELSE {})
           \cup
           (IF "." \in DOMAIN sts[s].transitions
            THEN Range(sts[s].transitions["."]) ELSE {}) : s \in cur}

\* line 132
any_final(sts, cur) == \E s \in cur : sts[s].is_final

\* lines 123-131: current_states after the first k characters of str
RECURSIVE states_after(_, _, _, _)
states_after(sts, start, str, k) ==
    IF k = 0 THEN epsilon_closure(sts, {start})
    ELSE epsilon_closure(sts,
             next_states(sts, states_after(sts, start, str, k - 1), str[k]))

\* check_string run from the call to the return with nothing in between
check_string(sts, start, str) ==
    any_final(sts, states_after(sts, start, str, Len(str)))

\* line 123: a call of check_string(str) on thread t
Call(t, str) ==
    /\ cpc = "ready"
    /\ mpc[t] = "idle"
    /\ input_str' = [input_str EXCEPT ![t] = str]
    /\ idx' = [idx EXCEPT ![t] = 0]
    /\ current_states' =
           [current_states EXCEPT ![t] = epsilon_closure(states, {start_state})]
    /\ mpc' = [mpc EXCEPT ![t] = "loop"]
    /\ result' = [result EXCEPT ![t] = FALSE]
    /\ UNCHANGED buildVars
    /\ UNCHANGED closureVars

\* CheckChar keeping the working set in one slot shared by all calls
CheckCharShared(t) ==
    /\ mpc[t] = "loop"
    /\ idx[t] < Len(input_str[t])
    /\ LET char == input_str[t][idx[t] + 1]
           nxt == next_states(states, current_states[t], char)
       IN  current_states' =
               [u \in Threads |-> epsilon_closure(states, nxt)]
    /\ idx' = [idx EXCEPT ![t] = idx[t] + 1]
    /\ UNCHANGED <<input_str, mpc, result>>
    /\ UNCHANGED buildVars
    /\ UNCHANGED closureVars

\* CheckChar reading transitions as a defaultdict would: a lookup of a
\* missing key inserts an empty list under it
CheckCharInserting(t) ==
    /\ mpc[t] = "loop"
    /\ idx[t] < Len(input_str[t])
    /\ LET char == input_str[t][idx[t] + 1]
           nxt == next_states(states, current_states[t], char)
           touch(tr) == [k \in DOMAIN tr \cup {char} |->
                            IF k \in DOMAIN tr THEN tr[k] ELSE <<>>]
       IN  /\ current_states' =
                   [current_states EXCEPT ![t] = epsilon_closure(states, nxt)]
           /\ states' = [k \in DOMAIN states |->
                            IF k \in current_states[t]
                            THEN [states[k] EXCEPT
                                      !.transitions = touch(states[k].transitions)]
                            ELSE states[k]]
    /\ idx' = [idx EXCEPT ![t] = idx[t] + 1]
    /\ UNCHANGED <<input_str, mpc, result>>
    /\ UNCHANGED <<pattern, i, base_start, base_end, start_state, cpc,
                   exception>>
    /\ UNCHANGED closureVars

\* lines 124-131: one iteration of the loop over input_str
CheckChar(t) ==
    /\ mpc[t] = "loop"
    /\ idx[t] < Len(input_str[t])
    /\ LET char == input_str[t][idx[t] + 1]
           nxt == next_states(states, current_states[t], char)
       IN  current_states' =
               [current_states EXCEPT ![t] = epsilon_closure(states, nxt)]
    /\ idx' = [idx EXCEPT ![t] = idx[t] + 1]
    /\ UNCHANGED <<input_str, mpc, result>>
    /\ UNCHANGED buildVars
    /\ UNCHANGED closureVars

\* line 132: the loop is over, the call returns and its locals are dropped
CheckReturn(t) ==
    /\ mpc[t] = "loop"
    /\ idx[t] >= Len(input_str[t])
    /\ result' = [result EXCEPT ![t] = any_final(states, current_states[t])]
    /\ mpc' = [mpc EXCEPT ![t] = "done"]
    /\ current_states' = [current_states EXCEPT ![t] = {}]
    /\ UNCHANGED <<input_str, idx>>
    /\ UNCHANGED buildVars
    /\ UNCHANGED closureVars

\* lines 136-138: the caller has used the returned value and moves on
Forget(t) ==
    /\ mpc[t] = "done"
    /\ mpc' = [mpc EXCEPT ![t] = "idle"]
    /\ input_str' = [input_str EXCEPT ![t] = <<>>]
    /\ idx' = [idx EXCEPT ![t] = 0]
    /\ result' = [result EXCEPT ![t] = FALSE]
    /\ UNCHANGED current_states
    /\ UNCHANGED buildVars
    /\ UNCHANGED closureVars

----------------------------------------------------------------------------
(* State.add_transition and RegexFSM.epsilon_closure called on their own, on
   a graph of State objects linked by the caller *)

GraphKeys == {None, "a", "."}

\* number of transitions registered in the first n states of the heap
RECURSIVE EdgeCountUpTo(_, _)
EdgeCountUpTo(sts, n) ==
    IF n = 0 THEN 0
    ELSE LET tr == sts[n].transitions
         IN  (IF None \in DOMAIN tr THEN Len(tr[None]) ELSE 0)
             + (IF "a" \in DOMAIN tr THEN Len(tr["a"]) ELSE 0)
             + (IF "." \in DOMAIN tr THEN Len(tr["."]) ELSE 0)
             + EdgeCountUpTo(sts, n - 1)

EdgeCount(sts) == EdgeCountUpTo(sts, Len(sts))

\* lines 8-13: states[src].add_transition(symbol, states[tgt])
AddTransition(src, symbol, tgt) ==
    /\ cpc = "graph"
    /\ ec_pc = "idle"
    /\ states' = add_transition(states, src, symbol, tgt)
    /\ EdgeCount(states) < MaxEdges
    /\ UNCHANGED <<pattern, i, base_start, base_end, start_state, cpc,
                   exception>>
    /\ UNCHANGED matchVars
    /\ UNCHANGED closureVars

\* lines 108-109: a call of epsilon_closure(S)
ClosureCall(S) ==
    /\ cpc = "graph"
    /\ ec_pc = "idle"
    /\ ec_states' = S
    /\ ec_stack' = SetToList(S)
    /\ ec_closure' = S
    /\ ec_pc' = "while"
    /\ UNCHANGED buildVars
    /\ UNCHANGED matchVars

\* lines 110-116: one iteration of the while loop
ClosureIter ==
    /\ ec_pc = "while"
    /\ ec_stack # <<>>
    /\ LET r == closure_body(states, [stack |-> ec_stack, closure |-> ec_closure])
       IN  /\ ec_stack' = r.stack
           /\ ec_closure' = r.closure
    /\ UNCHANGED <<ec_states, ec_pc>>
    /\ UNCHANGED buildVars
    /\ UNCHANGED matchVars

\* lines 110, 117: the stack is empty, closure is returned
ClosureReturn ==
    /\ ec_pc = "while"
    /\ ec_stack = <<>>
    /\ ec_pc' = "returned"
    /\ UNCHANGED <<ec_states, ec_stack, ec_closure>>
    /\ UNCHANGED buildVars
    /\ UNCHANGED matchVars

\* the caller has used the returned closure and moves on
ClosureForget ==
    /\ ec_pc = "returned"
    /\ ec_pc' = "idle"
    /\ ec_states' = {}
    /\ ec_stack' = <<>>
    /\ ec_closure' = {}
    /\ UNCHANGED buildVars
    /\ UNCHANGED matchVars

----------------------------------------------------------------------------
(* Specifications *)

\* RegexFSM.__init__ (lines 64-66) and the entry of _build_nfa (lines 69-72)
InitWith(patterns) ==
    /\ pattern \in patterns
    /\ i = 0
    /\ base_start = NoState
    /\ base_end = NoState
    /\ states = <<>>
    /\ start_state = NoState
    /\ cpc = "build"
    /\ exception = NoException
    /\ input_str = [t \in Threads |-> <<>>]
    /\ idx = [t \in Threads |-> 0]
    /\ current_states = [t \in Threads |-> {}]
    /\ mpc = [t \in Threads |-> "idle"]
    /\ result = [t \in Threads |-> FALSE]
    /\ ec_states = {}
    /\ ec_stack = <<>>
    /\ ec_closure = {}
    /\ ec_pc = "idle"

\* one automaton, calls of check_string one after the other
Init == InitWith(StringsUpTo(PatternChars, MaxPatLen))
MainCall == \E str \in StringsUpTo(InputChars, MaxInLen) : Call(MainThread, str)
MainChar == CheckChar(MainThread)
MainReturn == CheckReturn(MainThread)
MainForget == Forget(MainThread)
Next ==
    \/ RaiseMalformed
    \/ RaiseUnsupported
    \/ BuildAtom
    \/ FinishBuild
    \/ MainCall
    \/ MainChar
    \/ MainReturn
    \/ MainForget
Spec == Init /\ [][Next]_vars

\* the __main__ block (lines 134-138) and the two failing compilations
InitDemo == InitWith({DemoPattern} \cup ErrorPatterns)
DemoCall ==
    \E str \in DemoInputs \cup StringsUpTo(DemoChars, MaxDemoLen) :
        Call(MainThread, str)
NextDemo ==
    \/ RaiseMalformed
    \/ RaiseUnsupported
    \/ BuildAtom
    \/ FinishBuild
    \/ DemoCall
    \/ MainChar
    \/ MainReturn
    \/ MainForget
SpecDemo == InitDemo /\ [][NextDemo]_vars

\* one automaton shared by concurrent calls of check_string
InitConc == InitWith(StringsUpTo(PatternChars, MaxConcPatLen))
ConcCall ==
    \E t \in Threads : \E str \in StringsUpTo(ConcChars, MaxConcInLen) :
        Call(t, str)
ConcChar == \E t \in Threads : CheckChar(t)
ConcReturn == \E t \in Threads : CheckReturn(t)
ConcForget == \E t \in Threads : Forget(t)
NextConc ==
    \/ RaiseMalformed
    \/ RaiseUnsupported
    \/ BuildAtom
    \/ FinishBuild
    \/ ConcCall
    \/ ConcChar
    \/ ConcReturn
    \/ ConcForget
SpecConc == InitConc /\ [][NextConc]_vars

\* one automaton, calls one after the other; a call of check_string is
\* synchronous and runs to completion
LiveCall ==
    \E str \in StringsUpTo(InputChars, MaxConcInLen) : Call(MainThread, str)
NextLive ==
    \/ RaiseMalformed
    \/ RaiseUnsupported
    \/ BuildAtom
    \/ FinishBuild
    \/ LiveCall
    \/ MainChar
    \/ MainReturn
    \/ MainForget
SpecLive ==
    InitConc /\ [][NextLive]_vars /\ WF_vars(MainChar) /\ WF_vars(MainReturn)

\* up to n State objects created by State() (lines 3-6), not yet linked
InitGraphWith(n) ==
    /\ pattern = <<>>
    /\ i = 0
    /\ base_start = NoState
    /\ base_end = NoState
    /\ states \in {[k \in 1..m |-> NewState] : m \in 1..n}
    /\ start_state = NoState
    /\ cpc = "graph"
    /\ exception = NoException
    /\ input_str = [t \in Threads |-> <<>>]
    /\ idx = [t \in Threads |-> 0]
    /\ current_states = [t \in Threads |-> {}]
    /\ mpc = [t \in Threads |-> "idle"]
    /\ result = [t \in Threads |-> FALSE]
    /\ ec_states = {}
    /\ ec_stack = <<>>
    /\ ec_closure = {}
    /\ ec_pc = "idle"

\* the caller links the states by epsilon transitions and calls
\* epsilon_closure, which is synchronous and runs to completion
InitClosure == InitGraphWith(MaxClosureNodes)
AddEpsilon ==
    /\ EdgeCount(states) < MaxEpsEdges
    /\ \E src, tgt \in DOMAIN states : AddTransition(src, None, tgt)
AnyClosureCall == \E S \in SUBSET DOMAIN states : ClosureCall(S)
NextClosure ==
    \/ AddEpsilon
    \/ AnyClosureCall
    \/ ClosureIter
    \/ ClosureReturn
    \/ ClosureForget
SpecClosure ==
    InitClosure /\ [][NextClosure]_vars
        /\ WF_vars(ClosureIter) /\ WF_vars(ClosureReturn)

\* the caller links the states by transitions under any key
AnyAddTransition ==
    \E src, tgt \in DOMAIN states : \E symbol \in GraphKeys :
        AddTransition(src, symbol, tgt)
NextGraph == AnyAddTransition
InitGraph == InitGraphWith(MaxGraphNodes)
SpecGraph == InitGraph /\ [][NextGraph]_vars

\* the constructor alone: _build_nfa runs to its return or its raise
NextBuild ==
    \/ RaiseMalformed
    \/ RaiseUnsupported
    \/ BuildAtom
    \/ FinishBuild
SpecBuild == Init /\ [][NextBuild]_vars /\ WF_vars(NextBuild)

TypeOK ==
    /\ cpc \in {"build", "ready", "raised"}
    /\ i \in 0..Len(pattern)
    /\ \A t \in Threads : mpc[t] \in {"idle", "loop", "done"}
    /\ \A t \in Threads : result[t] \in BOOLEAN

----------------------------------------------------------------------------
(* Reference semantics of patterns, independent of the automaton *)

\* atom x matches the single character c
CharMatches(x, c) == x = "." \/ x = c

\* the language of a pattern: the first atom, with its operator if any,
\* takes a prefix of k matching characters and the rest takes the suffix
RECURSIVE RefMatch(_, _)
RefMatch(p, str) ==
    IF p = <<>> THEN str = <<>>
    ELSE LET x == p[1]
             op == IF Len(p) >= 2 /\ p[2] \in {"*", "+"} THEN p[2] ELSE ""
             rest == SubSeq(p, IF op = "" THEN 2 ELSE 3, Len(p))
             lo == IF op = "*" THEN 0 ELSE 1
             hi == IF op = "" THEN 1 ELSE Len(str)
         IN  \E k \in lo..hi :
                 /\ k <= Len(str)
                 /\ \A j \in 1..k : CharMatches(x, str[j])
                 /\ RefMatch(rest, SubSeq(str, k + 1, Len(str)))

\* position j of p holds an atom, or an operator right after an atom
CleanAt(p, j) ==
    \/ p[j] \in AlnumChars \cup {"."}
    \/ p[j] \in {"*", "+"} /\ j > 1 /\ p[j - 1] \in AlnumChars \cup {"."}

HasDefect(p) == \E j \in 1..Len(p) : ~CleanAt(p, j)
FirstDefect(p) ==
    CHOOSE j \in 1..Len(p) :
        ~CleanAt(p, j) /\ \A k \in 1..(j - 1) : CleanAt(p, k)

\* states reachable by zero or more epsilon transitions, as a fixpoint
RECURSIVE EpsReach(_, _)
EpsReach(sts, S) ==
    LET T == S \cup UNION {IF None \in DOMAIN sts[s].transitions
                           THEN Range(sts[s].transitions[None]) ELSE {} : s \in S}
    IN  IF T = S THEN S ELSE EpsReach(sts, T)

NoCallStarted == \A t \in Threads : mpc[t] = "idle"

----------------------------------------------------------------------------
(* Claims *)

\* C1: a returned check_string(input) is true iff the whole input belongs
\* to the language of the compiled pattern under the reference semantics.
C1_WholeStringSemantics ==
    \A t \in Threads :
        mpc[t] = "done" => result[t] = RefMatch(pattern, input_str[t])

\* C1 witness: '.*a' accepted 'ba' (repetition and concatenation both used)
C1_Witness ==
    /\ pattern = <<".", "*", "a">>
    /\ mpc[MainThread] = "done"
    /\ input_str[MainThread] = <<"b", "a">>
    /\ result[MainThread] = TRUE

\* C2: when the first offending position of the pattern holds '*' or '+'
\* (the pattern starts with an operator, or an operator follows an operator
\* that the preceding atom consumed), construction ends by raising the
\* malformed-pattern error at that position and no automaton is produced;
\* before that the cursor never passes the position.
C2_MalformedRaised ==
    (HasDefect(pattern) /\ pattern[FirstDefect(pattern)] \in {"*", "+"}) =>
        /\ i < FirstDefect(pattern)
        /\ cpc # "ready"
        /\ start_state = NoState
        /\ NoCallStarted
        /\ cpc = "raised" =>
               /\ i = FirstDefect(pattern) - 1
               /\ exception =
                      ValueError(MalformedText, pattern[FirstDefect(pattern)])
        /\ (cpc = "build" /\ i = FirstDefect(pattern) - 1) =>
               (ENABLED RaiseMalformed /\ ~ENABLED BuildAtom
                /\ ~ENABLED FinishBuild /\ ~ENABLED RaiseUnsupported)

\* C2 witness: 'a+*' raised the malformed-pattern error at the second operator
C2_Witness ==
    /\ pattern = <<"a", "+", "*">>
    /\ cpc = "raised"
    /\ i = 2
    /\ exception.text = MalformedText

\* C3: when the first offending position of the pattern holds a character
\* that is neither alphanumeric nor '.', '*', '+', construction ends by
\* raising the unsupported-symbol error, whose message differs from the
\* malformed-pattern one, and no automaton is produced.
C3_UnsupportedRaised ==
    (HasDefect(pattern) /\ pattern[FirstDefect(pattern)] \notin {"*", "+"}) =>
        /\ i < FirstDefect(pattern)
        /\ cpc # "ready"
        /\ start_state = NoState
        /\ NoCallStarted
        /\ cpc = "raised" =>
               /\ i = FirstDefect(pattern) - 1
               /\ exception =
                      ValueError(UnsupportedText, pattern[FirstDefect(pattern)])
               /\ exception.text # MalformedText
        /\ (cpc = "build" /\ i = FirstDefect(pattern) - 1) =>
               (ENABLED RaiseUnsupported /\ ~ENABLED BuildAtom
                /\ ~ENABLED FinishBuild /\ ~ENABLED RaiseMalformed)

\* C3 witness: 'a#b' raised the unsupported-symbol error at '#'
C3_Witness ==
    /\ pattern = <<"a", "#", "b">>
    /\ cpc = "raised"
    /\ i = 1
    /\ exception.text = UnsupportedText

\* C4: matching is total.  A call in its loop has consumed no more than its
\* input, no exception exists outside a failed construction, every call
\* that started returns a boolean, and for the empty input the returned
\* value says whether a final state is epsilon-reachable from start_state.
C4_Inv ==
    /\ \A t \in Threads :
        /\ mpc[t] = "loop" => idx[t] <= Len(input_str[t])
        /\ mpc[t] = "done" =>
               /\ result[t] \in BOOLEAN
               /\ input_str[t] = <<>> =>
                      result[t] = (\E q \in EpsReach(states, {start_state}) :
                                       states[q].is_final)
        /\ mpc[t] # "idle" => (cpc = "ready" /\ exception = NoException)
    /\ exception # NoException => (cpc = "raised" /\ NoCallStarted)

C4_MatchingTotal ==
    /\ []C4_Inv
    /\ (mpc[MainThread] = "loop") ~> (mpc[MainThread] = "done")

\* C4 witness: 'ab' returned false on 'c.', characters absent from the pattern
C4_Witness ==
    /\ pattern = <<"a", "b">>
    /\ mpc[MainThread] = "done"
    /\ input_str[MainThread] = <<"c", ".">>
    /\ result[MainThread] = FALSE

\* C5: once the automaton is compiled no step changes the heap of states
\* (transitions, is_final) or start_state, and two returned calls with the
\* same input hold the same result, whatever the other call did meanwhile.
C5_SameInputSameResult ==
    \A t, u \in Threads :
        (mpc[t] = "done" /\ mpc[u] = "done" /\ input_str[t] = input_str[u])
            => result[t] = result[u]

C5_GraphNeverMutated ==
    /\ [][cpc = "ready" => (states' = states /\ start_state' = start_state)]_vars
    /\ []C5_SameInputSameResult

\* C5 witness: two calls on 'a*' both returned true for 'aa'
C5_Witness ==
    /\ pattern = <<"a", "*">>
    /\ \A t \in Threads :
        /\ mpc[t] = "done"
        /\ input_str[t] = <<"a", "a">>
        /\ result[t] = TRUE

\* C6: under every interleaving each concurrent call holds, after k
\* characters, the working set it would hold when run alone, and returns
\* the result it would return when run alone.
C6_ConcurrentAsAlone ==
    \A t \in Threads :
        /\ mpc[t] = "loop" =>
               current_states[t] =
                   states_after(states, start_state, input_str[t], idx[t])
        /\ mpc[t] = "done" =>
               result[t] = check_string(states, start_state, input_str[t])

\* C6 witness: one call returned true while another, on a different input,
\* is in the middle of its loop
C6_Witness ==
    \E t, u \in Threads :
        /\ mpc[t] = "done" /\ result[t] = TRUE
        /\ mpc[u] = "loop" /\ idx[u] = 1 /\ Len(input_str[u]) = 2
        /\ input_str[t] # input_str[u]
        /\ current_states[u] # {}

\* a^k 4 w h i with k >= 0 and w non-empty
IsDemoForm(str) ==
    \E k \in 0..Len(str) :
        /\ \A j \in 1..k : str[j] = "a"
        /\ Len(str) >= k + 4
        /\ str[k + 1] = "4"
        /\ str[Len(str) - 1] = "h"
        /\ str[Len(str)] = "i"

\* C7: for 'a*4.+hi' a returned check_string is true exactly for the inputs
\* a^k 4 w h i with w non-empty; 'aaaaaa4uhi' and '4uhi' are accepted,
\* 'meow' and '4hi' rejected.
C7_DemoPattern ==
    \A t \in Threads :
        (pattern = DemoPattern /\ mpc[t] = "done") =>
            /\ result[t] = IsDemoForm(input_str[t])
            /\ input_str[t] \in {<<"a", "a", "a", "a", "a", "a", "4", "u", "h", "i">>,
                                 <<"4", "u", "h", "i">>} => result[t] = TRUE
            /\ input_str[t] \in {<<"m", "e", "o", "w">>, <<"4", "h", "i">>}
                   => result[t] = FALSE

\* C7 witness: 'a*4.+hi' accepted 'aaaaaa4uhi'
C7_Witness ==
    /\ pattern = DemoPattern
    /\ mpc[MainThread] = "done"
    /\ input_str[MainThread] = <<"a", "a", "a", "a", "a", "a", "4", "u", "h", "i">>
    /\ result[MainThread] = TRUE

NoOperators(p) == \A j \in 1..Len(p) : p[j] \in AlnumChars \cup {"."}

\* C8: for a pattern of atoms only, a returned check_string is true iff the
\* input has the pattern's length and every position holds the pattern's
\* literal or the pattern has '.' there.
C8_AtomsOnly ==
    \A t \in Threads :
        (NoOperators(pattern) /\ mpc[t] = "done") =>
            result[t] =
                (/\ Len(input_str[t]) = Len(pattern)
                 /\ \A j \in 1..Len(pattern) :
                        pattern[j] = "." \/ pattern[j] = input_str[t][j])

\* C8 witness: '.' accepted the one-character string 'c'
C8_Witness ==
    /\ pattern = <<".">>
    /\ mpc[MainThread] = "done"
    /\ input_str[MainThread] = <<"c">>
    /\ result[MainThread] = TRUE

IsStarOfAtom(p) == Len(p) = 2 /\ p[1] \in AlnumChars \cup {"."} /\ p[2] = "*"
IsPlusOfAtom(p) == Len(p) = 2 /\ p[1] \in AlnumChars \cup {"."} /\ p[2] = "+"
AllMatch(x, str) == \A j \in 1..Len(str) : CharMatches(x, str[j])

\* C9: 'x*' accepts the empty string and every string whose characters are
\* all matched by x, and rejects every other string.
C9_Star ==
    \A t \in Threads :
        (IsStarOfAtom(pattern) /\ mpc[t] = "done") =>
            result[t] = AllMatch(pattern[1], input_str[t])

\* C9 witness: 'a*' accepted the empty string
C9_Witness ==
    /\ pattern = <<"a", "*">>
    /\ mpc[MainThread] = "done"
    /\ input_str[MainThread] = <<>>
    /\ result[MainThread] = TRUE

\* C10: 'x+' rejects the empty string and accepts exactly the non-empty
\* strings whose characters are all matched by x; the automaton's entry is
\* the atom fragment's start and no final state is epsilon-reachable from it.
C10_Plus ==
    IsPlusOfAtom(pattern) =>
        /\ cpc = "ready" =>
               /\ start_state = 1
               /\ pattern[1] \in DOMAIN states[start_state].transitions
               /\ \A q \in EpsReach(states, {start_state}) : ~states[q].is_final
        /\ \A t \in Threads :
               mpc[t] = "done" =>
                   result[t] = (/\ Len(input_str[t]) >= 1
                                /\ AllMatch(pattern[1], input_str[t]))

\* C10 witness: 'a+' rejected the empty string
C10_Witness ==
    /\ pattern = <<"a", "+">>
    /\ mpc[MainThread] = "done"
    /\ input_str[MainThread] = <<>>
    /\ result[MainThread] = FALSE


\* destinations registered at state s under key
Dest(sts, s, key) ==
    IF key \in DOMAIN sts[s].transitions
    THEN Range(sts[s].transitions[key]) ELSE {}

\* C11: a matching step on character c replaces the current set by the
\* epsilon-closure of the union, over the states s of the current set, of
\* the destinations of s under c and under '.'; neither key suppresses the
\* other, and epsilon transitions are followed only by the closure, so the
\* current set stays closed under them.
C11_StepIsUnionOfExactAndWildcard ==
    [][\A t \in Threads :
          (mpc[t] = "loop" /\ mpc'[t] = "loop" /\ idx'[t] = idx[t] + 1) =>
              LET c == input_str[t][idx[t] + 1]
                  moved == {q \in DOMAIN states :
                               \E s \in current_states[t] :
                                   q \in Dest(states, s, c) \cup Dest(states, s, ".")}
              IN  /\ current_states'[t] = EpsReach(states, moved)
                  /\ \A s \in current_states'[t] :
                         Dest(states, s, None) \subseteq current_states'[t]]_vars

\* C11 witness: for '.*a', after reading 'a' the state reached by '.' and
\* the state reached by 'a' are both active
C11_Witness ==
    /\ pattern = <<".", "*", "a">>
    /\ mpc[MainThread] = "loop"
    /\ input_str[MainThread] = <<"a">>
    /\ idx[MainThread] = 1
    /\ {2, 6} \subseteq current_states[MainThread]


FinalStates == {q \in DOMAIN states : states[q].is_final}

\* the start of the first fragment: the star construction puts a new start
\* (third state created) in front, an atom or a plus keeps the atom's start
FirstFragmentStart(p) == IF Len(p) >= 2 /\ p[2] = "*" THEN 3 ELSE 1

\* C12: after a successful compilation exactly one state is final, the end
\* of the last concatenated fragment (the last state created; the single
\* state for the empty pattern), and start_state is the start of the first
\* fragment; before that, and after a failed compilation, no state is final.
C12_ExactlyOneFinal ==
    /\ cpc # "ready" => FinalStates = {}
    /\ cpc = "ready" =>
           /\ Cardinality(FinalStates) = 1
           /\ FinalStates = {base_end}
           /\ base_end = Len(states)
           /\ start_state = base_start
           /\ start_state = FirstFragmentStart(pattern)

\* C12 witness: 'a*b' compiled; only the end of the 'b' fragment is final
C12_Witness ==
    /\ pattern = <<"a", "*", "b">>
    /\ cpc = "ready"
    /\ FinalStates = {6}
    /\ start_state = 3


EpsClosed(sts, T) == \A s \in T : Dest(sts, s, None) \subseteq T

\* C13: epsilon_closure(S) returns, also when the epsilon transitions form
\* cycles: every iteration of its loop lowers 2 * (number of states not in
\* closure) + (length of stack), the stack holds distinct states of
\* closure, and a started call returns.  The returned set contains S, is
\* closed under epsilon transitions and is contained in every such set:
\* it is exactly the set of states epsilon-reachable from S.
C13_Measure == 2 * Cardinality(DOMAIN states \ ec_closure) + Len(ec_stack)

C13_Inv ==
    /\ ec_pc = "while" =>
           /\ Range(ec_stack) \subseteq ec_closure
           /\ Cardinality(Range(ec_stack)) = Len(ec_stack)
           /\ ec_states \subseteq ec_closure
    /\ ec_pc = "returned" =>
           /\ ec_states \subseteq ec_closure
           /\ EpsClosed(states, ec_closure)
           /\ \A T \in SUBSET DOMAIN states :
                  (ec_states \subseteq T /\ EpsClosed(states, T))
                      => ec_closure \subseteq T
           /\ ec_closure = EpsReach(states, ec_states)

C13_ClosureTerminatesExact ==
    /\ []C13_Inv
    /\ [][(ec_pc = "while" /\ ec_pc' = "while") =>
              C13_Measure' < C13_Measure]_vars
    /\ (ec_pc = "while") ~> (ec_pc = "returned")

\* C13 witness: on the epsilon cycle 1 -> 2 -> 1, with a third state not
\* linked, epsilon_closure({1}) returned {1, 2}
C13_Witness ==
    /\ cpc = "graph"
    /\ Len(states) = 3
    /\ Dest(states, 1, None) = {2}
    /\ Dest(states, 2, None) = {1}
    /\ ec_pc = "returned"
    /\ ec_states = {1}
    /\ ec_closure = {1, 2}


\* C14: once the current set of a call is empty after some character, every
\* later step of that call leaves it empty and the call returns false.
C14_EmptyStaysEmpty ==
    [][\A t \in Threads :
          (mpc[t] = "loop" /\ idx[t] >= 1 /\ current_states[t] = {}) =>
              /\ mpc'[t] \in {"loop", "done"}
              /\ input_str'[t] = input_str[t]
              /\ mpc'[t] = "loop" => current_states'[t] = {}
              /\ mpc'[t] = "done" => result'[t] = FALSE]_vars

\* C14 witness: 'ab' on 'cab': the set became empty at 'c' and is still
\* empty after the following 'a' and 'b'
C14_Witness ==
    /\ pattern = <<"a", "b">>
    /\ mpc[MainThread] = "loop"
    /\ input_str[MainThread] = <<"c", "a", "b">>
    /\ idx[MainThread] = 3
    /\ current_states[MainThread] = {}


\* C15: compiling the empty pattern never raises and yields one state,
\* without transitions, that is start_state and final; check_string then
\* returns true for the empty string and false for every other string.
C15_EmptyPattern ==
    pattern = <<>> =>
        /\ cpc # "raised"
        /\ exception = NoException
        /\ cpc = "build" => (states = <<>> /\ NoCallStarted)
        /\ cpc = "ready" =>
               /\ Len(states) = 1
               /\ DOMAIN states[1].transitions = {}
               /\ states[1].is_final
               /\ start_state = 1
        /\ \A t \in Threads :
               mpc[t] = "done" => result[t] = (input_str[t] = <<>>)

\* C15 witness: the automaton of the empty pattern rejected 'a'
C15_Witness ==
    /\ pattern = <<>>
    /\ cpc = "ready"
    /\ Len(states) = 1
    /\ mpc[MainThread] = "done"
    /\ input_str[MainThread] = <<"a">>
    /\ result[MainThread] = FALSE


\* the destinations registered at state s under key, in order
DestList(sts, s, key) ==
    IF key \in DOMAIN sts[s].transitions THEN sts[s].transitions[key] ELSE <<>>

\* every call of add_transition changes the heap, also a call that
\* registers a destination already present under the key
C16_EveryCallAdds ==
    (cpc = "graph" /\ EdgeCount(states) < MaxEdges) =>
        \A src, tgt \in DOMAIN states : \A symbol \in GraphKeys :
            ENABLED <<AddTransition(src, symbol, tgt)>>_vars

\* C16: a call states[src].add_transition(symbol, states[tgt]) leaves under
\* symbol the destinations registered before, in order, followed by tgt
\* (also when tgt was already among them), and changes nothing else: the
\* other keys of src, the name and is_final of src, and every other state.
C16_AddTransitionAppends ==
    /\ []C16_EveryCallAdds
    /\ [][\A src, tgt \in DOMAIN states : \A symbol \in GraphKeys :
          AddTransition(src, symbol, tgt) =>
              /\ DestList(states', src, symbol)
                     = DestList(states, src, symbol) \o <<tgt>>
              /\ DOMAIN states'[src].transitions
                     = DOMAIN states[src].transitions \cup {symbol}
              /\ \A k \in DOMAIN states[src].transitions \ {symbol} :
                     states'[src].transitions[k] = states[src].transitions[k]
              /\ states'[src].is_final = states[src].is_final
              /\ states'[src].name = states[src].name
              /\ DOMAIN states' = DOMAIN states
              /\ \A q \in DOMAIN states \ {src} : states'[q] = states[q]]_vars

\* C16 witness: state 1 holds the destination 2 twice under epsilon, beside
\* an entry under 'a'
C16_Witness ==
    /\ cpc = "graph"
    /\ Len(states) >= 2
    /\ DestList(states, 1, None) = <<2, 2>>
    /\ DestList(states, 1, "a") = <<1>>


\* destinations of s under any key
AllDest(sts, s) ==
    UNION {Range(sts[s].transitions[k]) : k \in DOMAIN sts[s].transitions}

\* states reachable by zero or more transitions of any kind, as a fixpoint
RECURSIVE Reach(_, _)
Reach(sts, S) ==
    LET T == S \cup UNION {AllDest(sts, s) : s \in S}
    IN  IF T = S THEN S ELSE Reach(sts, T)

\* states from which some state of S is reachable, as a fixpoint
RECURSIVE CoReach(_, _)
CoReach(sts, S) ==
    LET T == S \cup {q \in DOMAIN sts : AllDest(sts, q) \cap S # {}}
    IN  IF T = S THEN S ELSE CoReach(sts, T)

\* pre is a prefix of some string of the language of p; a completion needs
\* at most one character per atom, drawn from the literals of p
CompletionChars(p) == (Range(p) \cap AlnumChars) \cup {"a"}
NumAtoms(p) == Cardinality({j \in 1..Len(p) : IsAtomChar(p[j])})
PrefixViable(p, pre) ==
    \E w \in StringsUpTo(CompletionChars(p), NumAtoms(p)) :
        RefMatch(p, pre \o w)

\* C17: in a compiled automaton the final state has no outgoing
\* transition, every state is reachable from start_state and reaches the
\* final state; during matching the current set is non-empty after a
\* prefix iff the prefix can be completed to a string of the language.
\* Matching never writes the graph, so its shape is examined between calls.
C17_TrimAutomaton ==
    cpc = "ready" =>
        /\ (\A t \in Threads : mpc[t] = "idle") =>
               /\ \A q \in FinalStates : DOMAIN states[q].transitions = {}
               /\ Reach(states, {start_state}) = DOMAIN states
               /\ CoReach(states, FinalStates) = DOMAIN states
        /\ \A t \in Threads :
               mpc[t] = "loop" =>
                   ((current_states[t] # {})
                        <=> PrefixViable(pattern,
                                         SubSeq(input_str[t], 1, idx[t])))

\* C17 witness: 'a+b' after the prefix 'aa' of the input 'aac', which is
\* not accepted: the current set is not empty
C17_Witness ==
    /\ pattern = <<"a", "+", "b">>
    /\ mpc[MainThread] = "loop"
    /\ input_str[MainThread] = <<"a", "a", "c">>
    /\ idx[MainThread] = 2
    /\ current_states[MainThread] # {}


\* C18: the cursor only moves right, by one or two per iteration, and
\* never past the end, so construction terminates; every position behind
\* the cursor is inoffensive, a raise happens at the leftmost offending
\* position with the error kind of the character found there ('*#' is
\* malformed, '#*' and 'a#*' are unsupported), and construction succeeds
\* iff no position is offending.
C18_Inv ==
    /\ i <= Len(pattern)
    /\ \A j \in 1..i : CleanAt(pattern, j)
    /\ cpc = "ready" => (~HasDefect(pattern) /\ i = Len(pattern))
    /\ cpc = "raised" =>
           /\ HasDefect(pattern)
           /\ i = FirstDefect(pattern) - 1
           /\ exception =
                  ValueError(IF pattern[i + 1] \in {"*", "+"}
                             THEN MalformedText ELSE UnsupportedText,
                             pattern[i + 1])
           /\ pattern = <<"*", "#">> => exception.text = MalformedText
           /\ pattern \in {<<"#", "*">>, <<"a", "#", "*">>} =>
                  exception.text = UnsupportedText
C18_CursorStep ==
    /\ i' >= i
    /\ (cpc = "build" /\ cpc' = "build") => i' \in {i + 1, i + 2}
    /\ cpc' # "build" => i' = i
    /\ cpc # "build" => cpc' = cpc
C18_LeftToRight ==
    /\ []C18_Inv
    /\ [][C18_CursorStep]_vars
    /\ (cpc = "build" /\ ~HasDefect(pattern)) ~> (cpc = "ready")
    /\ (cpc = "build" /\ HasDefect(pattern)) ~> (cpc = "raised")

\* C18 witness: 'a#*' raised the unsupported-symbol error at '#', left of
\* the operator that has no atom before it
C18_Witness ==
    /\ pattern = <<"a", "#", "*">>
    /\ cpc = "raised"
    /\ i = 1
    /\ exception = ValueError(UnsupportedText, "#")

====
